---- MODULE Spec2Model ----
(***************************************************************************)
(* Model of imgtool's TrackedImage (load, save, resize, flips, mirror).    *)
(* The repository holds two revisions of the same program: main.go (the    *)
(* earlier one, with flip(vertical bool)) and the later revision with      *)
(* flipVertically / flipHorizontally / mirror and a validating resize.     *)
(* The variable prog says which revision is running.                       *)
(***************************************************************************)
EXTENDS Integers, Sequences, FiniteSets, TLC

\* ------------------------------------------------------------------ bounds
\* Largest width and height of an image a decoder hands back.
MaxW == 2
MaxH == 3

\* ------------------------------------------------------------------ colours
\* A color.Color value: its dynamic type t and its channel bytes v.
\*   RGBA  <<R,G,B,A>> alpha-premultiplied     NRGBA <<R,G,B,A>> not premultiplied
\*   Gray  <<Y>>                                YCbCr <<Y,Cb,Cr>>
Col(t, v) == [t |-> t, v |-> v]

\* v | v<<8 for a byte v
Dup8(v) == v * 257

\* The clamp of color.YCbCr.RGBA: a 24-bit fixed point value to 16 bits.
YCbCrClamp(r) == IF r < 0 THEN 0 ELSE IF r >= 16777216 THEN 65535 ELSE r \div 256

\* c.RGBA(): the 16-bit alpha-premultiplied channels of a colour.
RGBA16(c) ==
    CASE c.t = "RGBA"  -> <<Dup8(c.v[1]), Dup8(c.v[2]), Dup8(c.v[3]), Dup8(c.v[4])>>
      [] c.t = "NRGBA" -> << (Dup8(c.v[1]) * c.v[4]) \div 255,
                             (Dup8(c.v[2]) * c.v[4]) \div 255,
                             (Dup8(c.v[3]) * c.v[4]) \div 255,
                             Dup8(c.v[4]) >>
      [] c.t = "Gray"  -> <<Dup8(c.v[1]), Dup8(c.v[1]), Dup8(c.v[1]), 65535>>
      [] c.t = "YCbCr" ->
            LET yy1 == c.v[1] * 65793
                cb1 == c.v[2] - 128
                cr1 == c.v[3] - 128
            IN << YCbCrClamp(yy1 + 91881 * cr1),
                  YCbCrClamp(yy1 - 22554 * cb1 - 46802 * cr1),
                  YCbCrClamp(yy1 + 116130 * cb1),
                  65535 >>

\* color.RGBAModel.Convert, which image.RGBA.Set applies to every colour stored.
RGBAModelConvert(c) ==
    IF c.t = "RGBA" THEN c
    ELSE LET q == RGBA16(c)
         IN Col("RGBA", <<q[1] \div 256, q[2] \div 256, q[3] \div 256, q[4] \div 256>>)

\* ------------------------------------------------------------------ images
\* An image.Image with Bounds() = (0,0)-(W,H): its concrete colour model cm
\* and the colour At(x, y) of every point.  The nil interface value is NilImage.
Points(W, H) == (0 .. W - 1) \X (0 .. H - 1)

NilImage == [cm |-> "nil", W |-> 0, H |-> 0, px |-> [p \in Points(0, 0) |-> Col("nil", <<>>)]]

At(img, x, y) == img.px[<<x, y>>]

\* Variant: the rectangle built with width and height exchanged.
NewRGBA_transposed(W, H) ==
    [cm |-> "RGBA", W |-> H, H |-> W, px |-> [p \in Points(H, W) |-> Col("RGBA", <<0, 0, 0, 0>>)]]

\* image.NewRGBA(rect): every pixel is transparent black.
NewRGBA(W, H) ==
    [cm |-> "RGBA", W |-> W, H |-> H, px |-> [p \in Points(W, H) |-> Col("RGBA", <<0, 0, 0, 0>>)]]

\* (*image.RGBA).Set: out-of-bounds points are ignored, the colour is converted.
Set(img, x, y, c) ==
    IF <<x, y>> \in Points(img.W, img.H)
    THEN [img EXCEPT !.px[<<x, y>>] = RGBAModelConvert(c)]
    ELSE img

\* ------------------------------------------------------- decoder's outputs
\* The k-th sample colour of each colour model the png and jpeg decoders produce.
Sample(cm, k) ==
    CASE cm = "RGBA"  -> Col("RGBA", <<(10 * k) % 256, (20 * k + 1) % 256, (255 - k) % 256, 255>>)
      [] cm = "NRGBA" -> Col("NRGBA", <<(200 - k) % 256, (10 * k) % 256, 50,
                                        IF k % 3 = 0 THEN 128 ELSE IF k % 3 = 1 THEN 255 ELSE 64>>)
      [] cm = "Gray"  -> Col("Gray", <<(20 * k + 3) % 256>>)
      [] cm = "YCbCr" -> Col("YCbCr", <<(16 + 10 * k) % 256, (128 + 9 * k) % 256, (120 - 7 * k) % 256>>)

\* A W x H image of colour model cm whose pixels are pairwise distinct.
SampleImage(cm, W, H) ==
    [cm |-> cm, W |-> W, H |-> H, px |-> [p \in Points(W, H) |-> Sample(cm, p[1] * H + p[2])]]

\* image.Decode registers only the png and jpeg decoders (the imports).
DecodedModels(kind) ==
    IF kind = "png" THEN {"RGBA", "NRGBA", "Gray"} ELSE {"Gray", "YCbCr"}

DecodableImages(kind) ==
    {SampleImage(cm, W, H) : cm \in DecodedModels(kind), W \in 1 .. MaxW, H \in 1 .. MaxH}

\* ------------------------------------------------------------------ getPixels
\* pixels[x][y] (1-based here: pixels[x+1][y+1]) = data.At(x, y); nil when no image.
getPixels(img) ==
    IF img = NilImage THEN <<>>
    ELSE [x \in 1 .. img.W |-> [y \in 1 .. img.H |-> At(img, x - 1, y - 1)]]

\* ------------------------------------------------------------------ the flip loop
\* Variant: the half-pass test with >= (the middle row is skipped too).
SkipRow_strict(y, boundsY) == y >= boundsY \div 2

\* The half-pass test of flipVertically.
SkipRow(y, boundsY) == y > boundsY \div 2

\* Variant: the row is paired with itself.
InverseCoordinate_same(y, boundsY) == y

\* The row a row is swapped with.
InverseCoordinate(y, boundsY) == boundsY - y - 1

\* The calls of rgba.Set the two nested range loops make, in order, as
\* <<x, y, colour>>; k counts the (x, y) pairs visited, x outer, y inner.
RECURSIVE SwapCalls(_, _, _, _)
SwapCalls(pixels, boundsY, halfPass, k) ==
    LET W == Len(pixels)
        H == IF W = 0 THEN 0 ELSE Len(pixels[1])
    IN IF k >= W * H THEN <<>>
       ELSE LET x == k \div H
                y == k % H
                pixel == pixels[x + 1][y + 1]
                inverseCoordinate == InverseCoordinate(y, boundsY)
            IN IF halfPass /\ SkipRow(y, boundsY)
               THEN SwapCalls(pixels, boundsY, halfPass, k + 1)
               ELSE LET inverse == pixels[x + 1][inverseCoordinate + 1]
                    IN << <<x, y, inverse>>, <<x, inverseCoordinate, pixel>> >>
                       \o SwapCalls(pixels, boundsY, halfPass, k + 1)

RECURSIVE ApplySets(_, _)
ApplySets(rgba, calls) ==
    IF calls = <<>> THEN rgba
    ELSE ApplySets(Set(rgba, calls[1][1], calls[1][2], calls[1][3]), Tail(calls))

\* The new image flipVertically (halfPass) and flip(false) (full pass) build.
Flipped(img, halfPass) ==
    ApplySets(NewRGBA(img.W, img.H), SwapCalls(getPixels(img), img.H, halfPass, 0))

\* ------------------------------------------------------------------ errors
\* An error value: <<message, detail>>.  ErrNil is the nil error.
ErrNil == <<"nil", "">>
Pending == <<"pending", "">>
\* log.Fatal (a failed file.Close) or a run-time panic: the call never returns.
Fatal == <<"log.Fatal", "">>
Panic == <<"panic", "nil pointer dereference">>
OpenError(path) == <<"open: no such file or directory", path>>
DecodeError == <<"image: unknown format", "">>
EncodeError == <<"write error", "">>
UnsupportedFormat(f) == <<"unsupported format: %s", f>>
InvalidModifier == <<"unsupported image resize modifier", "">>
NoImageLoaded == <<"no image data, you must load the image first", "">>
HorizontalNotImplemented == <<"horizontal flipping has not been implemented yet", "">>
VerticalNotImplemented == <<"vertical flipping has not been implemented yet", "">>

\* ------------------------------------------------------------------ file system
\* The two files the program names; every other path ("" and the paths below a
\* missing directory) can neither be opened nor created.
FilePaths == {"ss.png", "ss_1.png"}
NoDirPath == "nodir/ss.png"
NilPath == "<nil>"
LoadPaths == FilePaths \cup {NoDirPath}
SavePaths == {NilPath, NoDirPath} \cup FilePaths

\* What a file holds: nothing decodable (empty or partly written), or an image
\* in one of the two containers image.Decode knows.
FileKinds == {"absent", "undecodable", "png", "jpeg"}

\* ------------------------------------------------------------------ resize
\* A float64: a number in thousandths, or NaN.  main.go's uint arguments are the
\* whole numbers among them.
Num(m) == [k |-> "num", m |-> m]
NaN == [k |-> "nan", m |-> 0]
Lt(a, b) == a.k = "num" /\ b.k = "num" /\ a.m < b.m
Le(a, b) == a.k = "num" /\ b.k = "num" /\ a.m <= b.m
Gt(a, b) == Lt(b, a)

Modifiers == {Num(m) : m \in {-500, 0, 50, 100, 101, 500, 1000, 1001, 1005, 1010, 2000}} \cup {NaN}
UintModifiers == {Num(0), Num(1000), Num(2000)}

\* Variant: the guard with < for <= (exactly 0.1 is accepted).
ModifierTooSmall_exclusive(modifier) ==
    Lt(modifier, Num(100)) \/ (Gt(modifier, Num(1000)) /\ Lt(modifier, Num(1010)))

\* The guard of resize(modifier float64).
ModifierTooSmall(modifier) ==
    Le(modifier, Num(100)) \/ (Gt(modifier, Num(1000)) /\ Lt(modifier, Num(1010)))

resizeResult(modifier) == IF ModifierTooSmall(modifier) THEN InvalidModifier ELSE ErrNil

\* ------------------------------------------------------------------ state
NoHist == [run |-> 0, orig |-> NilImage]

VARIABLES
    prog,       \* the revision running: "main.go" or "part_000"
    filepath,   \* TrackedImage.filepath
    format,     \* TrackedImage.format
    data,       \* TrackedImage.data
    files,      \* the file system: path -> what the file holds
    handles,    \* the open *os.File handles, by path
    pc,         \* "idle", inside "load" / "save" (file open), or "exited"
    op,         \* the method called last
    arg,        \* its path or flag argument
    modifier,   \* its numeric argument
    ret,        \* the error it returned; Pending while it runs
    hist        \* history: the run of successful vertical flips just made (1 or 2
                \* calls long, else 0) and the data the run started from

vars == <<prog, filepath, format, data, files, handles, pc, op, arg, modifier, ret, hist>>
fields == <<filepath, format, data>>

Init ==
    /\ prog \in {"main.go", "part_000"}
    /\ filepath = ""
    /\ format = ""
    /\ data = NilImage
    /\ files \in {[p \in FilePaths |-> IF p = "ss.png" THEN k ELSE "absent"] : k \in {"png", "jpeg"}}
    /\ handles = {}
    /\ pc = "idle"
    /\ op = "new"
    /\ arg = ""
    /\ modifier = Num(0)
    /\ ret = ErrNil
    /\ hist = NoHist

\* Variant: the handle is never closed.
Close_leak(hs, h) == hs

\* file.Close() of the deferred function: the descriptor is released.
Close(hs, h) == hs \ {h}

\* The deferred close of load and save: a failed Close ends the process.
DeferredClose(h, err, closeOk) ==
    /\ handles' = Close(handles, h)
    /\ pc' = IF closeOk /\ err # Panic THEN "idle" ELSE "exited"
    /\ ret' = IF err = Panic THEN Panic ELSE IF closeOk THEN err ELSE Fatal

\* ------------------------------------------------------------------ load
\* os.Open
load_open(path) ==
    /\ pc = "idle"
    /\ op' = "load" /\ arg' = path /\ modifier' = Num(0)
    /\ IF path \in FilePaths /\ files[path] # "absent"
       THEN /\ handles' = handles \cup {path}
            /\ pc' = "load"
            /\ ret' = Pending
       ELSE /\ ret' = OpenError(path)
            /\ UNCHANGED <<handles, pc>>
    /\ hist' = NoHist
    /\ UNCHANGED <<prog, fields, files>>

\* Variant: filepath is assigned before the decode error is looked at.
loadResult_partial(path, kind, img) ==
    IF kind \in {"png", "jpeg"}
    THEN [filepath |-> path, format |-> kind, data |-> img, err |-> ErrNil]
    ELSE [filepath |-> path, format |-> format, data |-> data, err |-> DecodeError]

\* What image.Decode and the three assignments leave in the fields.
loadResult(path, kind, img) ==
    IF kind \in {"png", "jpeg"}
    THEN [filepath |-> path, format |-> kind, data |-> img, err |-> ErrNil]
    ELSE [filepath |-> filepath, format |-> format, data |-> data, err |-> DecodeError]

\* image.Decode, the assignments, the deferred Close
load_decode ==
    /\ pc = "load"
    /\ \E closeOk \in BOOLEAN :
       \E img \in IF files[arg] \in {"png", "jpeg"} THEN DecodableImages(files[arg]) ELSE {NilImage} :
          LET r == loadResult(arg, files[arg], img)
          IN /\ filepath' = r.filepath
             /\ format' = r.format
             /\ data' = r.data
             /\ DeferredClose(arg, r.err, closeOk)
    /\ hist' = NoHist
    /\ UNCHANGED <<prog, files, op, arg, modifier>>

\* ------------------------------------------------------------------ save
\* The path save writes to: the argument, or the image's own path when nil.
saveTarget(path) == IF path = NilPath THEN filepath ELSE path

\* os.Create: the file exists and is empty afterwards.
save_create(path) ==
    /\ pc = "idle"
    /\ op' = "save" /\ arg' = path /\ modifier' = Num(0)
    /\ IF saveTarget(path) \in FilePaths
       THEN /\ files' = [files EXCEPT ![saveTarget(path)] = "undecodable"]
            /\ handles' = handles \cup {saveTarget(path)}
            /\ pc' = "save"
            /\ ret' = Pending
       ELSE /\ ret' = OpenError(saveTarget(path))
            /\ UNCHANGED <<files, handles, pc>>
    /\ hist' = NoHist
    /\ UNCHANGED <<prog, fields>>

\* The formats save's switch encodes.
Encodable == {"png", "jpeg"}

\* The switch on i.format: what the file holds afterwards and the error.
saveResult(fmt, img, written) ==
    IF fmt \in Encodable
    THEN IF img = NilImage THEN [kind |-> "undecodable", err |-> Panic]
         ELSE IF written THEN [kind |-> fmt, err |-> ErrNil]
         ELSE [kind |-> "undecodable", err |-> EncodeError]
    ELSE [kind |-> "undecodable", err |-> UnsupportedFormat(fmt)]

\* png.Encode / jpeg.Encode or the default branch, the deferred Close
save_encode ==
    /\ pc = "save"
    /\ \E closeOk \in BOOLEAN, written \in BOOLEAN :
          LET r == saveResult(format, data, written)
          IN /\ files' = [files EXCEPT ![saveTarget(arg)] = r.kind]
             /\ DeferredClose(saveTarget(arg), r.err, closeOk)
    /\ hist' = NoHist
    /\ UNCHANGED <<prog, fields, op, arg, modifier>>

\* ------------------------------------------------------------------ resize
\* resize(modifier float64) of the later revision
resize(m) ==
    /\ pc = "idle" /\ prog = "part_000"
    /\ op' = "resize" /\ arg' = "" /\ modifier' = m
    /\ ret' = resizeResult(m)
    /\ hist' = NoHist
    /\ UNCHANGED <<prog, fields, files, handles, pc>>

\* resize(modifier uint) of main.go
resize_uint(m) ==
    /\ pc = "idle" /\ prog = "main.go"
    /\ op' = "resize" /\ arg' = "" /\ modifier' = m
    /\ ret' = ErrNil
    /\ hist' = NoHist
    /\ UNCHANGED <<prog, fields, files, handles, pc>>

\* ------------------------------------------------------------------ flips
\* Each flip as a function of i.data: the data it leaves and the error it returns.
flipHorizontallyResult(img) == [data |-> img, err |-> HorizontalNotImplemented]

flipVerticallyResult(img) ==
    IF img = NilImage THEN [data |-> img, err |-> NoImageLoaded]
    ELSE [data |-> Flipped(img, TRUE), err |-> ErrNil]

\* Variant: mirror calls flipHorizontally first.
mirrorResult_horizontalFirst(img) ==
    LET h == flipHorizontallyResult(img)
    IN IF h.err # ErrNil THEN h
       ELSE flipVerticallyResult(h.data)

\* mirror: flipVertically, then flipHorizontally, stopping at the first error.
mirrorResult(img) ==
    LET v == flipVerticallyResult(img)
    IN IF v.err # ErrNil THEN v
       ELSE flipHorizontallyResult(v.data)

\* flip(vertical bool) of main.go
flipResult(img, vertical) ==
    IF vertical THEN [data |-> img, err |-> VerticalNotImplemented]
    ELSE IF img = NilImage THEN [data |-> img, err |-> NoImageLoaded]
    ELSE [data |-> Flipped(img, FALSE), err |-> ErrNil]

Transform(name, flag, r) ==
    /\ pc = "idle"
    /\ op' = name /\ arg' = flag /\ modifier' = Num(0)
    /\ data' = r.data
    /\ ret' = r.err
    /\ hist' = IF name \in {"flipVertically", "flip"} /\ r.err = ErrNil
               THEN IF hist.run = 1 THEN [run |-> 2, orig |-> hist.orig]
                    ELSE [run |-> 1, orig |-> data]
               ELSE NoHist
    /\ UNCHANGED <<prog, filepath, format, files, handles, pc>>

flipHorizontally == prog = "part_000" /\ Transform("flipHorizontally", "", flipHorizontallyResult(data))

flipVertically == prog = "part_000" /\ Transform("flipVertically", "", flipVerticallyResult(data))

mirror == prog = "part_000" /\ Transform("mirror", "", mirrorResult(data))

flip(vertical) ==
    prog = "main.go" /\ Transform("flip", IF vertical THEN "true" ELSE "false", flipResult(data, vertical))

\* img.format = "jpeg" in main.go's main
setFormat ==
    /\ pc = "idle" /\ prog = "main.go"
    /\ op' = "setFormat" /\ arg' = "" /\ modifier' = Num(0)
    /\ format' = "jpeg"
    /\ ret' = ErrNil
    /\ hist' = NoHist
    /\ UNCHANGED <<prog, filepath, data, files, handles, pc>>

Next ==
    \/ \E path \in LoadPaths : load_open(path)
    \/ load_decode
    \/ \E path \in SavePaths : save_create(path)
    \/ save_encode
    \/ \E m \in Modifiers : resize(m)
    \/ \E m \in UintModifiers : resize_uint(m)
    \/ flipHorizontally
    \/ flipVertically
    \/ mirror
    \/ \E vertical \in BOOLEAN : flip(vertical)
    \/ setFormat

Spec == Init /\ [][Next]_vars

\* ================================================================== claims
FlipOps == {"flipVertically", "flipHorizontally", "mirror"}
AnyFlipOps == FlipOps \cup {"flip"}
VerticalFlipDone == op' = "flipVertically" /\ ret' = ErrNil

C3_Claim ==
    [][(op' \in FlipOps /\ ret' # ErrNil) => UNCHANGED fields]_vars

\* ------------------------------------------------------------------ C4
\* C4: a save call made while the format is not png or jpeg leaves every file
\* as it was and returns the unsupported-format error.
C4_Claim ==
    [][(op' = "save" /\ format \notin Encodable) =>
         /\ files' = files
         /\ pc' = "idle" => ret' = UnsupportedFormat(format)]_vars

\* ------------------------------------------------------------------ C5
\* C5: load is all-or-nothing.  While it runs the three fields are untouched;
\* when it returns an error the fields are as before the call and the error is
\* the one os.Open or image.Decode gave; when it returns nil the three fields
\* are the path, the decoded format and the decoded image.
C5_LoadAllOrNothing ==
    [][op' = "load" =>
         /\ ret' = Pending => UNCHANGED fields
         /\ (pc' = "idle" /\ ret' # ErrNil) =>
               /\ UNCHANGED fields
               /\ ret' = IF pc = "idle" THEN OpenError(arg') ELSE DecodeError
         /\ (pc' = "idle" /\ ret' = ErrNil) =>
               /\ filepath' = arg'
               /\ format' = files[arg'] /\ format' \in {"png", "jpeg"}
               /\ data' \in DecodableImages(format')]_vars

\* A load of an undecodable file has failed on an image loaded from ss.png
\* and flipped, and the image is still there.
C5_Witness ==
    /\ op = "load" /\ pc = "idle" /\ ret = DecodeError /\ arg = "ss_1.png"
    /\ filepath = "ss.png" /\ format = "png" /\ data # NilImage /\ data.H = 3

\* ------------------------------------------------------------------ C6
\* C6, as stated: every flip operation called with no image loaded returns the
\* NoImageLoaded error.
C6_Original ==
    [][(data = NilImage /\ op' \in AnyFlipOps) => ret' = NoImageLoaded]_vars

\* C6, amended: with no image loaded, flipVertically and mirror (and main.go's
\* flip(false)) return the NoImageLoaded error, flipHorizontally (and main.go's
\* flip(true)) return their not-implemented error, and no image appears.
C6_Amended ==
    [][(data = NilImage /\ op' \in AnyFlipOps) =>
         /\ data' = NilImage
         /\ ret' = CASE op' = "flipHorizontally" -> HorizontalNotImplemented
                     [] op' = "flip" /\ arg' = "true" -> VerticalNotImplemented
                     [] OTHER -> NoImageLoaded]_vars

\* mirror has been called on a TrackedImage that never loaded anything.
C6_Witness ==
    /\ op = "mirror" /\ ret = NoImageLoaded
    /\ data = NilImage /\ filepath = "" /\ format = ""

C9_HandlesReleased ==
    /\ pc \in {"idle", "exited"} => handles = {}
    /\ pc = "load" => handles = {arg}
    /\ pc = "save" => handles = {saveTarget(arg)}

\* A save has returned an encode error and the handle is closed.
C9_Witness ==
    /\ op = "save" /\ pc = "idle" /\ ret = EncodeError
    /\ files[saveTarget(arg)] = "undecodable" /\ handles = {}

====
